---- MODULE Spec2Model ----
(***************************************************************************)
(* Gas-station queueing simulation (src/main.py) on the SimPy kernel.      *)
(* One action per event the environment pops from its heap; each action    *)
(* runs every callback of that event to the next yield point.              *)
(***************************************************************************)
EXTENDS Integers, Sequences, FiniteSets, TLC

\* ---------------------------------------------------------------- bounds
MaxCustomers == 3       \* customers the arrival loop spawns before it is cut
Horizon == 5            \* the `until` passed to run()
MaxDelay == 1           \* randint() results range over 1..MaxDelay
MaxCap == 2             \* settings.*_NUMBER range over 1..MaxCap

\* ------------------------------------------------------ program constants
GAS_TANK_EMPTY_CHANCE == 5          \* hundredths
CUSTOMER_WANTS_FOOD_CHANCE == 25    \* hundredths
CUSTOMER_RETARDED_CHANCE == 35      \* hundredths
URGENT == 0
NORMAL == 1

Res == {"pump", "cashier"}
DiceValues == {GAS_TANK_EMPTY_CHANCE, CUSTOMER_RETARDED_CHANCE, 50}
FoodDiceValues == {10, CUSTOMER_WANTS_FOOD_CHANCE}
Delays == 1..MaxDelay
Customers == 1..MaxCustomers

VARIABLES
    now,                   \* Environment.now
    queue,                 \* Environment._queue, in (time, priority, eid) order
    stopped,               \* StopSimulation was raised by the until event
    capacity,              \* Resource.capacity per resource
    users,                 \* Resource.users per resource (requests holding a slot)
    waitq,                 \* Resource.queue (put_queue) per resource
    data,                  \* MonitoredResource.data per resource
    cust,                  \* per customer: position in GasStation.process
    spawned,               \* customers created by _run_system so far
    waiting_time_values,   \* GasStation._waiting_time_values
    reqLog,                \* history: requests issued per resource, in order
    grantLog,              \* history: requests granted per resource, in order
    relLog                 \* history: requests released per resource, in order

vars == <<now, queue, stopped, capacity, users, waitq, data, cust, spawned,
          waiting_time_values, reqLog, grantLog, relLog>>

\* ---------------------------------------------------------------- helpers
Range(s) == {s[i] : i \in 1..Len(s)}

Last(s) == s[Len(s)]

\* list.remove(x): drops the first occurrence; absent x is ignored by _do_get
Remove(s, x) ==
    IF x \notin Range(s) THEN s
    ELSE LET k == CHOOSE i \in 1..Len(s) : s[i] = x /\ \A j \in 1..(i-1) : s[j] # x
         IN SubSeq(s, 1, k-1) \o SubSeq(s, k+1, Len(s))

Ev(t, p, k, w, r) == [time |-> t, prio |-> p, kind |-> k, who |-> w, res |-> r]

\* mutant: the heap key leaves the priority out
BeforeNoPriority(a, e) == a.time <= e.time

\* heap order (time, priority, eid): an event already scheduled stays ahead
\* of a new one with the same time and priority
Before(a, e) == a.time < e.time \/ (a.time = e.time /\ a.prio <= e.prio)

\* Environment.schedule
Schedule(q, e) ==
    LET k == Cardinality({i \in 1..Len(q) : Before(q[i], e)})
    IN SubSeq(q, 1, k) \o <<e>> \o SubSeq(q, k+1, Len(q))

\* mutant: the two counters passed in each other's place
SampleSwapped(t, ql, au) == [time |-> t, queue_length |-> au, active_users |-> ql]

Sample(t, ql, au) == [time |-> t, queue_length |-> ql, active_users |-> au]

\* the part of the state that resource operations and scheduling act on
Machine(q) ==
    [users |-> users, waitq |-> waitq, data |-> data, evq |-> q,
     reqLog |-> reqLog, grantLog |-> grantLog, relLog |-> relLog,
     cust |-> cust, wtv |-> waiting_time_values]

\* mutant: the capacity test is off by one
TriggerPutOverCapacity(m, r, t) ==
    IF m.waitq[r] = <<>> THEN m
    ELSE LET h == Head(m.waitq[r]) IN
         IF Len(m.users[r]) <= capacity[r]
         THEN [m EXCEPT !.users[r] = Append(@, h),
                        !.waitq[r] = Tail(@),
                        !.grantLog[r] = Append(@, h),
                        !.evq = Schedule(@, Ev(t, NORMAL, "req", h[1], r))]
         ELSE m

\* mutant: the newest waiting request is served first
TriggerPutLifo(m, r, t) ==
    IF m.waitq[r] = <<>> THEN m
    ELSE LET h == m.waitq[r][Len(m.waitq[r])] IN
         IF Len(m.users[r]) < capacity[r]
         THEN [m EXCEPT !.users[r] = Append(@, h),
                        !.waitq[r] = SubSeq(@, 1, Len(@) - 1),
                        !.grantLog[r] = Append(@, h),
                        !.evq = Schedule(@, Ev(t, NORMAL, "req", h[1], r))]
         ELSE m

\* mutant: the grant reaches the requesting process one time unit late
TriggerPutDelayed(m, r, t) ==
    IF m.waitq[r] = <<>> THEN m
    ELSE LET h == Head(m.waitq[r]) IN
         IF Len(m.users[r]) < capacity[r]
         THEN [m EXCEPT !.users[r] = Append(@, h),
                        !.waitq[r] = Tail(@),
                        !.grantLog[r] = Append(@, h),
                        !.evq = Schedule(@, Ev(t + 1, NORMAL, "req", h[1], r))]
         ELSE m

\* BaseResource._trigger_put with Resource._do_put: only the head of the
\* queue is examined, because _do_put returns None
TriggerPut(m, r, t) ==
    IF m.waitq[r] = <<>> THEN m
    ELSE LET h == Head(m.waitq[r]) IN
         IF Len(m.users[r]) < capacity[r]
         THEN [m EXCEPT !.users[r] = Append(@, h),
                        !.waitq[r] = Tail(@),
                        !.grantLog[r] = Append(@, h),
                        !.evq = Schedule(@, Ev(t, NORMAL, "req", h[1], r))]
         ELSE m

\* mutant: a request takes a free slot itself, whoever is waiting
RequestBarging(m, r, id, t) ==
    LET m1 == [m EXCEPT !.data[r] =
                   Append(@, Sample(t, Len(m.waitq[r]) + Len(m.users[r]),
                                    Len(m.users[r])))]
        m3 == IF Len(m1.users[r]) < capacity[r]
              THEN [m1 EXCEPT !.users[r] = Append(@, id),
                              !.grantLog[r] = Append(@, id),
                              !.evq = Schedule(@, Ev(t, NORMAL, "req", id[1], r))]
              ELSE [m1 EXCEPT !.waitq[r] = Append(@, id)]
    IN [m3 EXCEPT !.reqLog[r] =
            Append(@, [id |-> id, imm |-> id \in Range(m3.users[r]),
                       at |-> Len(m1.data[r])])]

\* mutant: the sample is taken after the request was handed to the resource
RequestSampleLate(m, r, id, t) ==
    LET m2 == [m EXCEPT !.waitq[r] = Append(@, id)]
        m3 == TriggerPut(m2, r, t)
        m4 == [m3 EXCEPT !.data[r] =
                   Append(@, Sample(t, Len(m3.waitq[r]) + Len(m3.users[r]),
                                    Len(m3.users[r])))]
    IN [m4 EXCEPT !.reqLog[r] =
            Append(@, [id |-> id, imm |-> id \in Range(m3.users[r]),
                       at |-> Len(m4.data[r])])]

\* MonitoredResource.request
Request(m, r, id, t) ==
    LET m1 == [m EXCEPT !.data[r] =
                   Append(@, Sample(t, Len(m.waitq[r]) + Len(m.users[r]),
                                    Len(m.users[r])))]
        m2 == [m1 EXCEPT !.waitq[r] = Append(@, id)]
        m3 == TriggerPut(m2, r, t)
    IN [m3 EXCEPT !.reqLog[r] =
            Append(@, [id |-> id, imm |-> id \in Range(m3.users[r]),
                       at |-> Len(m1.data[r])])]

\* mutant: the sample is taken after the slot was given back
ReleaseSampleLate(m, r, id, t) ==
    LET m1 == [m EXCEPT !.users[r] = Remove(@, id)]
        m2 == [m1 EXCEPT !.data[r] =
                   Append(@, Sample(t, Len(m1.waitq[r]), Len(m1.users[r])))]
    IN [m2 EXCEPT !.relLog[r] = Append(@, [id |-> id, at |-> Len(m2.data[r])]),
                  !.evq = Schedule(@, Ev(t, NORMAL, "rel", 0, r))]

\* mutant: the released slot is not offered to the waiting requests
ReleaseNoCallback(m, r, id, t) ==
    LET m1 == [m EXCEPT !.data[r] =
                   Append(@, Sample(t, Len(m.waitq[r]), Len(m.users[r])))]
    IN [m1 EXCEPT !.users[r] = Remove(@, id),
                  !.relLog[r] = Append(@, [id |-> id, at |-> Len(m1.data[r])])]

\* MonitoredResource.release
Release(m, r, id, t) ==
    LET m1 == [m EXCEPT !.data[r] =
                   Append(@, Sample(t, Len(m.waitq[r]), Len(m.users[r])))]
    IN [m1 EXCEPT !.users[r] = Remove(@, id),
                  !.relLog[r] = Append(@, [id |-> id, at |-> Len(m1.data[r])]),
                  !.evq = Schedule(@, Ev(t, NORMAL, "rel", 0, r))]

\* mutant: an explicit release inside the block, then the one of the block exit
ExitWithTwice(m, r, id, t) == Release(Release(m, r, id, t), r, id, t)

\* mutant: the request is made without the guarded block, nothing releases it
ExitWithoutRelease(m, r, id, t) == m

\* leaving a `with resource.request() as request:` block
ExitWith(m, r, id, t) == Release(m, r, id, t)

\* entering a `with resource.request() as request:` block up to `yield request`
EnterWith(m, c, r, stage, t) ==
    LET m1 == Request(m, r, <<c, stage>>, t)
    IN [m1 EXCEPT !.cust[c].pc = "acquire", !.cust[c].stage = stage]

\* mutant: the departure time is recorded instead of the time spent
FinishNoSubtract(m, c, t) ==
    [m EXCEPT !.wtv = Append(@, t),
              !.cust[c].pc = "done",
              !.cust[c].stage = "none",
              !.evq = Schedule(@, Ev(t, NORMAL, "procdone", c, "none"))]

\* last statement of GasStation.process, then the Process event is scheduled
Finish(m, c, t) ==
    [m EXCEPT !.wtv = Append(@, t - m.cust[c].arrival),
              !.cust[c].pc = "done",
              !.cust[c].stage = "none",
              !.evq = Schedule(@, Ev(t, NORMAL, "procdone", c, "none"))]

IsRefill(dice) == dice <= GAS_TANK_EMPTY_CHANCE
IsSlow(dice) == dice <= CUSTOMER_RETARDED_CHANCE
WantsFood(dice) == dice < CUSTOMER_WANTS_FOOD_CHANCE

StageRes(stage) == IF stage = "food" THEN "cashier" ELSE "pump"

\* mutant: the slow branch is taken by everybody
ServiceTimeAlwaysSlow(stage, dice, d) ==
    IF stage = "fuel" THEN d * 2 ELSE d

\* duration of the service timeout of a stage for a randint() result d
ServiceTime(stage, dice, d) ==
    IF stage = "fuel" /\ IsSlow(dice) THEN d * 2 ELSE d

Commit(m) ==
    /\ users' = m.users
    /\ waitq' = m.waitq
    /\ data' = m.data
    /\ queue' = m.evq
    /\ reqLog' = m.reqLog
    /\ grantLog' = m.grantLog
    /\ relLog' = m.relLog
    /\ cust' = m.cust
    /\ waiting_time_values' = m.wtv

\* Environment.step: pop the next event and advance the clock
Pops(k) ==
    /\ ~stopped
    /\ queue # <<>>
    /\ Head(queue).kind = k
    /\ now' = Head(queue).time

\* ------------------------------------------------------------------- Init
Init ==
    /\ now = 0
    /\ queue = <<Ev(0, URGENT, "sysinit", 0, "none"),
                 Ev(Horizon, URGENT, "until", 0, "none")>>
    /\ stopped = FALSE
    /\ capacity \in [Res -> 1..MaxCap]
    /\ users = [r \in Res |-> <<>>]
    /\ waitq = [r \in Res |-> <<>>]
    /\ data = [r \in Res |-> <<>>]
    /\ cust = [c \in Customers |->
                 [pc |-> "unborn", stage |-> "none", arrival |-> 0, dice |-> 0,
                  service |-> 0]]
    /\ spawned = 0
    /\ waiting_time_values = <<>>
    /\ reqLog = [r \in Res |-> <<>>]
    /\ grantLog = [r \in Res |-> <<>>]
    /\ relLog = [r \in Res |-> <<>>]

\* mutant: only a limit before now is refused
RunFromAllowsNow(limit) ==
    /\ now = 0
    /\ IF limit < 0
       THEN /\ queue = <<Ev(0, URGENT, "sysinit", 0, "none")>>
            /\ stopped = TRUE
       ELSE /\ queue = <<Ev(0, URGENT, "sysinit", 0, "none"),
                         Ev(limit, URGENT, "until", 0, "none")>>
            /\ stopped = FALSE
    /\ capacity \in [Res -> 1..MaxCap]
    /\ users = [r \in Res |-> <<>>]
    /\ waitq = [r \in Res |-> <<>>]
    /\ data = [r \in Res |-> <<>>]
    /\ cust = [c \in Customers |->
                 [pc |-> "unborn", stage |-> "none", arrival |-> 0, dice |-> 0,
                  service |-> 0]]
    /\ spawned = 0
    /\ waiting_time_values = <<>>
    /\ reqLog = [r \in Res |-> <<>>]
    /\ grantLog = [r \in Res |-> <<>>]
    /\ relLog = [r \in Res |-> <<>>]

\* MyEnvironment.run(until=limit) on a fresh environment: the arrival process
\* is started, then Environment.run refuses a limit that is not after now
\* (ValueError, nothing is executed) or schedules the until event URGENT
RunFrom(limit) ==
    /\ now = 0
    /\ IF limit <= 0
       THEN /\ queue = <<Ev(0, URGENT, "sysinit", 0, "none")>>
            /\ stopped = TRUE
       ELSE /\ queue = <<Ev(0, URGENT, "sysinit", 0, "none"),
                         Ev(limit, URGENT, "until", 0, "none")>>
            /\ stopped = FALSE
    /\ capacity \in [Res -> 1..MaxCap]
    /\ users = [r \in Res |-> <<>>]
    /\ waitq = [r \in Res |-> <<>>]
    /\ data = [r \in Res |-> <<>>]
    /\ cust = [c \in Customers |->
                 [pc |-> "unborn", stage |-> "none", arrival |-> 0, dice |-> 0,
                  service |-> 0]]
    /\ spawned = 0
    /\ waiting_time_values = <<>>
    /\ reqLog = [r \in Res |-> <<>>]
    /\ grantLog = [r \in Res |-> <<>>]
    /\ relLog = [r \in Res |-> <<>>]

\* ---------------------------------------------------------------- actions
\* Initialize event of the _run_system process: first randint and timeout
SysInitFrom(gaps) ==
    /\ Pops("sysinit")
    /\ \E gap \in gaps :
         queue' = Schedule(Tail(queue), Ev(Head(queue).time + gap, NORMAL, "arrive", 0, "none"))
    /\ UNCHANGED <<stopped, capacity, users, waitq, data, cust, spawned,
                   waiting_time_values, reqLog, grantLog, relLog>>

\* arrival timeout of _run_system: spawn a customer, draw the next gap
ArriveFrom(gaps) ==
    /\ Pops("arrive")
    /\ spawned < MaxCustomers
    /\ LET t == Head(queue).time
           c == spawned + 1
           q1 == Schedule(Tail(queue), Ev(t, URGENT, "start", c, "none"))
       IN /\ spawned' = c
          /\ cust' = [cust EXCEPT ![c].pc = "start"]
          /\ IF c < MaxCustomers
             THEN \E gap \in gaps :
                    queue' = Schedule(q1, Ev(t + gap, NORMAL, "arrive", 0, "none"))
             ELSE queue' = q1
    /\ UNCHANGED <<stopped, capacity, users, waitq, data,
                   waiting_time_values, reqLog, grantLog, relLog>>

\* Initialize event of a customer: GasStation.process up to its first yield
StartFrom(dices) ==
    /\ Pops("start")
    /\ LET t == Head(queue).time
           c == Head(queue).who
       IN \E dice \in dices :
            LET m0 == Machine(Tail(queue))
                m1 == [m0 EXCEPT !.cust[c].arrival = t, !.cust[c].dice = dice]
            IN Commit(EnterWith(m1, c, "pump",
                                IF IsRefill(dice) THEN "refill" ELSE "fuel", t))
    /\ UNCHANGED <<stopped, capacity, spawned>>

\* a granted Request event is processed: the customer resumes and starts the
\* service sub-process (its Initialize event is scheduled URGENT)
Granted ==
    /\ Pops("req")
    /\ LET t == Head(queue).time
           c == Head(queue).who
       IN /\ cust' = [cust EXCEPT ![c].pc = "serve"]
          /\ queue' = Schedule(Tail(queue), Ev(t, URGENT, "subinit", c, "none"))
    /\ UNCHANGED <<stopped, capacity, users, waitq, data, spawned,
                   waiting_time_values, reqLog, grantLog, relLog>>

\* Initialize event of _fill_up_tank/_fill_up_car/_fill_up_car_slowly/_sell_food
SubInitFrom(delays) ==
    /\ Pops("subinit")
    /\ LET t == Head(queue).time
           c == Head(queue).who
       IN \E d \in delays :
            LET dur == ServiceTime(cust[c].stage, cust[c].dice, d)
            IN /\ queue' = Schedule(Tail(queue), Ev(t + dur, NORMAL, "timeout", c, "none"))
               /\ cust' = [cust EXCEPT ![c].service = @ + dur]
    /\ UNCHANGED <<stopped, capacity, users, waitq, data, spawned,
                   waiting_time_values, reqLog, grantLog, relLog>>

\* the service timeout fires: the sub-process ends, its Process event is scheduled
Timeout ==
    /\ Pops("timeout")
    /\ LET t == Head(queue).time
           c == Head(queue).who
       IN queue' = Schedule(Tail(queue), Ev(t, NORMAL, "subdone", c, "none"))
    /\ UNCHANGED <<stopped, capacity, users, waitq, data, cust, spawned,
                   waiting_time_values, reqLog, grantLog, relLog>>

\* mutant: the dice is thrown again between the refill and the fueling
SubDoneRedrawFrom(dices) ==
    /\ Pops("subdone")
    /\ LET t == Head(queue).time
           c == Head(queue).who
           stage == cust[c].stage
           m1 == ExitWith(Machine(Tail(queue)), StageRes(stage), <<c, stage>>, t)
       IN CASE stage = "refill" ->
                 \E again \in DiceValues :
                    Commit(EnterWith([m1 EXCEPT !.cust[c].dice = again],
                                     c, "pump", "fuel", t))
            [] stage = "fuel" ->
                 \E dice \in dices :
                    IF WantsFood(dice)
                    THEN Commit(EnterWith(m1, c, "cashier", "food", t))
                    ELSE Commit(Finish(m1, c, t))
            [] OTHER -> Commit(Finish(m1, c, t))
    /\ UNCHANGED <<stopped, capacity, spawned>>

\* mutant: the next request is issued inside the block, ahead of its release
SubDoneNestedFrom(dices) ==
    /\ Pops("subdone")
    /\ LET t == Head(queue).time
           c == Head(queue).who
           stage == cust[c].stage
           m0 == Machine(Tail(queue))
       IN CASE stage = "refill" ->
                 Commit(ExitWith(EnterWith(m0, c, "pump", "fuel", t),
                                 StageRes(stage), <<c, stage>>, t))
            [] stage = "fuel" ->
                 \E dice \in dices :
                    IF WantsFood(dice)
                    THEN Commit(ExitWith(EnterWith(m0, c, "cashier", "food", t),
                                         StageRes(stage), <<c, stage>>, t))
                    ELSE Commit(Finish(ExitWith(m0, StageRes(stage), <<c, stage>>, t), c, t))
            [] OTHER -> Commit(Finish(ExitWith(m0, StageRes(stage), <<c, stage>>, t), c, t))
    /\ UNCHANGED <<stopped, capacity, spawned>>

\* the sub-process event is processed: the customer leaves the with block
\* (release) and runs on to its next yield or to the end of its body
SubDoneFrom(dices) ==
    /\ Pops("subdone")
    /\ LET t == Head(queue).time
           c == Head(queue).who
           stage == cust[c].stage
           m1 == ExitWith(Machine(Tail(queue)), StageRes(stage), <<c, stage>>, t)
       IN CASE stage = "refill" -> Commit(EnterWith(m1, c, "pump", "fuel", t))
            [] stage = "fuel" ->
                 \E dice \in dices :
                    IF WantsFood(dice)
                    THEN Commit(EnterWith(m1, c, "cashier", "food", t))
                    ELSE Commit(Finish(m1, c, t))
            [] OTHER -> Commit(Finish(m1, c, t))
    /\ UNCHANGED <<stopped, capacity, spawned>>

\* a Release event is processed: its callback is _trigger_put
Released ==
    /\ Pops("rel")
    /\ Commit(TriggerPut(Machine(Tail(queue)), Head(queue).res, Head(queue).time))
    /\ UNCHANGED <<stopped, capacity, spawned>>

\* Process event of a finished customer: no callbacks
ProcDone ==
    /\ Pops("procdone")
    /\ queue' = Tail(queue)
    /\ UNCHANGED <<stopped, capacity, users, waitq, data, cust, spawned,
                   waiting_time_values, reqLog, grantLog, relLog>>

\* the until event: StopSimulation ends Environment.run
Until ==
    /\ Pops("until")
    /\ queue' = Tail(queue)
    /\ stopped' = TRUE
    /\ UNCHANGED <<capacity, users, waitq, data, cust, spawned,
                   waiting_time_values, reqLog, grantLog, relLog>>

\* the run of main: every draw ranges over the bounded sets
SysInit == SysInitFrom(Delays)

Arrive == ArriveFrom(Delays)

Start == StartFrom(DiceValues)

SubInit == SubInitFrom(Delays)

SubDone == SubDoneFrom(FoodDiceValues)

Next ==
    \/ SysInit
    \/ Arrive
    \/ Start
    \/ Granted
    \/ SubInit
    \/ Timeout
    \/ SubDone
    \/ Released
    \/ ProcDone
    \/ Until

Spec == Init /\ [][Next]_vars

\* ------------------------------------------------------ the sanity scenarios
\* the runs of the sanity scenarios: arrivals 0 or 5 apart (or none any more
\* within the limit), every service 10 long, no refill, no food
ScenarioLimit == 30
ScenarioGaps == {0, 5, 100}
ScenarioService == {10}
ScenarioDice == {50}
ScenarioFoodDice == {CUSTOMER_WANTS_FOOD_CHANCE}

InitScenario == RunFrom(ScenarioLimit)

ScenSysInit == SysInitFrom(ScenarioGaps)

ScenArrive == ArriveFrom(ScenarioGaps)

ScenStart == StartFrom(ScenarioDice)

ScenSubInit == SubInitFrom(ScenarioService)

ScenSubDone == SubDoneFrom(ScenarioFoodDice)

NextScenario ==
    \/ ScenSysInit
    \/ ScenArrive
    \/ ScenStart
    \/ Granted
    \/ ScenSubInit
    \/ Timeout
    \/ ScenSubDone
    \/ Released
    \/ ProcDone
    \/ Until

SpecScenario == InitScenario /\ [][NextScenario]_vars

\* --------------------------------------------------------- the run limit
\* runs with the limit at the start of the clock and with the bounded limit
Untils == {0, Horizon}

InitUntil == \E limit \in Untils : RunFrom(limit)

SpecUntil == InitUntil /\ [][Next]_vars

\* -------------------------------------------------- release without a grant
\* a caller releases, once in a run, a request whose slot was already given
\* back: MonitoredResource.release runs as for any other request
DoubleRelease ==
    /\ ~stopped
    /\ \A r \in Res : \A i, j \in 1..Len(relLog[r]) :
          i # j => relLog[r][i].id # relLog[r][j].id
    /\ \E r \in Res : \E k \in 1..Len(relLog[r]) :
          /\ relLog[r][k].id \notin Range(users[r])
          /\ Commit(Release(Machine(queue), r, relLog[r][k].id, now))
    /\ UNCHANGED <<now, stopped, capacity, spawned>>

NextMisuse ==
    \/ Next
    \/ DoubleRelease

SpecMisuse == Init /\ [][NextMisuse]_vars

\* ------------------------------------------------------------ statistics
\* mutant: last_monitor_time is never advanced
RECURSIVE AccumulateNoLast(_, _, _, _)
AccumulateNoLast(d, i, usage, last) ==
    IF i > Len(d) THEN usage
    ELSE AccumulateNoLast(d, i + 1, usage + d[i].active_users * (d[i].time - last), last)

\* the accumulation loop of main over one resource's samples
RECURSIVE Accumulate(_, _, _, _)
Accumulate(d, i, usage, last) ==
    IF i > Len(d) THEN usage
    ELSE Accumulate(d, i + 1, usage + d[i].active_users * (d[i].time - last), d[i].time)

Usage(d) == Accumulate(d, 1, 0, 0)

RECURSIVE Sum(_)
Sum(w) == IF w = <<>> THEN 0 ELSE Head(w) + Sum(Tail(w))

\* GasStation.get_mean_waiting_time: statistics.mean, which raises
\* StatisticsError on an empty list; the mean is kept as the exact fraction
get_mean_waiting_time(w) ==
    IF Len(w) = 0
    THEN [raises |-> "StatisticsError", num |-> 0, den |-> 1]
    ELSE [raises |-> "none", num |-> Sum(w), den |-> Len(w)]

\* ------------------------------------------------- vocabulary of the claims
Holders(r) == Len(users[r])

\* requests and releases issued on r by the step being taken
NewRequests(r) == Len(reqLog'[r]) - Len(reqLog[r])
NewReleases(r) == Len(relLog'[r]) - Len(relLog[r])

Pos(s, x) == CHOOSE i \in 1..Len(s) : s[i] = x

RelIds(r) == {relLog[r][i].id : i \in 1..Len(relLog[r])}

Distinct(s) == \A i, j \in 1..Len(s) : i # j => s[i] # s[j]

IsPrefix(s, t) == Len(s) <= Len(t) /\ SubSeq(t, 1, Len(s)) = s

\* no event of a customer and no release is pending in the environment
Quiescent ==
    \A i \in 1..Len(queue) : queue[i].kind \in {"sysinit", "arrive", "procdone", "until"}

DoneCustomers == {c \in Customers : cust[c].pc = "done"}

\* the pending events of time t, and those of time t and priority p
AtTime(q, t) == SelectSeq(q, LAMBDA e : e.time = t)
AtKey(q, t, p) == SelectSeq(q, LAMBDA e : e.time = t /\ e.prio = p)

\* customer c has started its body, at time t
Arrived(c, t) == cust[c].pc \notin {"unborn", "start"} /\ cust[c].arrival = t

\* the arrival process brings nobody else before the scenario limit
NoMoreArrivals ==
    \A i \in 1..Len(queue) :
        queue[i].kind \in {"sysinit", "arrive"} => queue[i].time >= ScenarioLimit

Granted_(r, id) == id \in Range(grantLog[r])

\* scenario A: one pump, two customers, arriving at 0 and 5
ScenarioA ==
    /\ capacity["pump"] = 1
    /\ spawned = 2 /\ NoMoreArrivals
    /\ Arrived(1, 0) /\ Arrived(2, 5)

\* scenario B: two pumps, three customers, all arriving at 0
ScenarioB ==
    /\ capacity["pump"] = 2
    /\ spawned = 3 /\ NoMoreArrivals
    /\ Arrived(1, 0) /\ Arrived(2, 0) /\ Arrived(3, 0)

\* every request customer c issued so far was granted at the instant it was issued
NeverWaited(c) ==
    \A r \in Res : \A i \in 1..Len(reqLog[r]) :
        reqLog[r][i].id[1] = c => reqLog[r][i].imm

\* the service timeouts performed by the finished customers, summed
ServiceOfDone ==
    Sum([c \in Customers |-> IF cust[c].pc = "done" THEN cust[c].service ELSE 0])

\* the run has not ended and its until event is pending for time t
LimitIs(t) ==
    ~stopped /\ \E i \in 1..Len(queue) : queue[i].kind = "until" /\ queue[i].time = t

\* slots of r that waiting requests could take
Grantable(r) ==
    IF capacity[r] - Holders(r) < Len(waitq[r])
    THEN capacity[r] - Holders(r) ELSE Len(waitq[r])

\* Release events of r still to be processed at the current instant
PendingReleases(r) ==
    {i \in 1..Len(queue) :
        queue[i].kind = "rel" /\ queue[i].res = r /\ queue[i].time = now}

\* the requests of customer c that hold a slot or wait for one
Claims(c) ==
    {x \in Res \X (Customers \X {"refill", "fuel", "food"}) :
        x[2][1] = c /\ x[2] \in Range(users[x[1]]) \cup Range(waitq[x[1]])}

\* customer c has an event pending that resumes it or its service
Resumes(c) ==
    \E k \in 1..Len(queue) :
        queue[k].who = c /\ queue[k].kind \in {"req", "subinit", "timeout", "subdone"}

\* the pump requests of customer c, in the order they were issued
PumpRequests(c) ==
    SelectSeq([i \in 1..Len(reqLog["pump"]) |-> reqLog["pump"][i].id],
              LAMBDA id : id[1] = c)

\* the sample taken by the i-th request, and by the k-th release, on r
RequestSampleOf(r, i) == data[r][reqLog[r][i].at]
ReleaseSampleOf(r, k) == data[r][relLog[r][k].at]

\* ------------------------------------------------------------------ claims
\* C1: every resource has between 0 and capacity holders in every reachable state
C1_HoldersWithinCapacity ==
    \A r \in Res : 0 <= Holders(r) /\ Holders(r) <= capacity[r]

C1_Witness ==
    \E r \in Res : Holders(r) = capacity[r] /\ Len(waitq[r]) >= 2

\* C2: of two requests that had to queue on the same resource, the one queued
\* first is granted no later than the other
C2_Fifo ==
    \A r \in Res : \A i, j \in 1..Len(reqLog[r]) :
        (i < j /\ ~reqLog[r][i].imm /\ ~reqLog[r][j].imm
               /\ reqLog[r][j].id \in Range(grantLog[r]))
        => /\ reqLog[r][i].id \in Range(grantLog[r])
           /\ Pos(grantLog[r], reqLog[r][i].id) < Pos(grantLog[r], reqLog[r][j].id)

\* two queued requests, both granted, the later one issued at the time of a release
C2_Witness ==
    \E r \in Res : \E i, j \in 1..Len(reqLog[r]) :
        /\ i < j /\ ~reqLog[r][i].imm /\ ~reqLog[r][j].imm
        /\ reqLog[r][i].id \in Range(grantLog[r])
        /\ reqLog[r][j].id \in Range(grantLog[r])
        /\ \E k \in 1..Len(relLog[r]) :
             data[r][relLog[r][k].at].time = data[r][reqLog[r][j].at].time

\* C3: a request is granted at the instant it is issued iff, just before it,
\* holders < capacity and the wait queue is empty; otherwise it joins the tail
\* of the wait queue
C3_ImmediateIff ==
    [][\A r \in Res : NewRequests(r) = 1 =>
          LET id == Last(reqLog'[r]).id
              free == Holders(r) - NewReleases(r) < capacity[r]
          IN /\ (id \in Range(users'[r])) <=> (free /\ waitq[r] = <<>>)
             /\ (id \notin Range(users'[r])) =>
                    (waitq'[r] # <<>> /\ Last(waitq'[r]) = id)
             /\ Last(reqLog'[r]).imm <=> (id \in Range(users'[r]))]_vars

\* a request issued with a free slot and a non-empty queue was not granted at once
C3_Witness ==
    \E r \in Res : \E i \in 1..Len(reqLog[r]) :
        LET s == data[r][reqLog[r][i].at]
        IN /\ ~reqLog[r][i].imm
           /\ s.active_users < capacity[r]
           /\ s.queue_length > s.active_users

\* C4: every request appends exactly one sample, taken before the grant
\* decision: the current time, len(wait_queue) + holders, and holders
C4_RequestSample ==
    [][\A r \in Res : NewRequests(r) = 1 =>
          LET h == Holders(r) - NewReleases(r)
          IN /\ Len(data'[r]) = Len(data[r]) + NewReleases(r) + 1
             /\ Last(data'[r]) = [time |-> now', queue_length |-> Len(waitq[r]) + h,
                                   active_users |-> h]
             /\ Last(reqLog'[r]).at = Len(data'[r])]_vars

\* a request sample taken while requests were waiting
C4_Witness ==
    \E r \in Res : \E i \in 1..Len(reqLog[r]) :
        LET s == data[r][reqLog[r][i].at]
        IN s.active_users >= 1 /\ s.queue_length >= s.active_users + 1

\* C5 as stated: the release sample is taken after holders was decremented
C5_SampleAfterDecrement ==
    [][\A r \in Res : NewReleases(r) = 1 =>
          data'[r][Len(data[r]) + 1] =
              [time |-> now', queue_length |-> Len(waitq[r]),
               active_users |-> Holders(r) - 1]]_vars

\* C5 amended: every release appends exactly one sample, taken before holders
\* is decremented and before any waiter is promoted: the current time,
\* len(wait_queue), and holders including the releasing one
C5_ReleaseSample ==
    [][\A r \in Res : NewReleases(r) = 1 =>
          /\ Len(data'[r]) = Len(data[r]) + 1 + NewRequests(r)
          /\ data'[r][Len(data[r]) + 1] =
                [time |-> now', queue_length |-> Len(waitq[r]),
                 active_users |-> Holders(r)]
          /\ Last(relLog'[r]).at = Len(data[r]) + 1
          /\ Holders(r) >= 1]_vars

\* a release sample taken while a request was waiting
C5_Witness ==
    \E r \in Res : \E k \in 1..Len(relLog[r]) :
        LET s == data[r][relLog[r][k].at]
        IN s.queue_length >= 1 /\ s.active_users = capacity[r]

\* C6: the samples of a resource are append-only, one per request and one per
\* release, with non-decreasing times, queue_length >= 0 and
\* 0 <= active_users <= capacity
C6_SamplesShape ==
    \A r \in Res :
        /\ Len(data[r]) = Len(reqLog[r]) + Len(relLog[r])
        /\ \A i \in 1..Len(data[r]) :
             /\ data[r][i].queue_length >= 0
             /\ data[r][i].active_users >= 0
             /\ data[r][i].active_users <= capacity[r]
             /\ data[r][i].time >= 0
             /\ i > 1 => data[r][i-1].time <= data[r][i].time

C6_AppendOnly ==
    \A r \in Res : IsPrefix(data[r], data'[r])

C6_Samples == [](C6_SamplesShape) /\ [][C6_AppendOnly]_vars

C6_Witness ==
    \E r \in Res :
        /\ Len(reqLog[r]) >= 2 /\ Len(relLog[r]) >= 1
        /\ data[r][1].time < Last(data[r]).time
        /\ \E i \in 1..Len(data[r]) : data[r][i].queue_length > capacity[r]

\* C7: releases never outnumber grants, only granted requests are released,
\* and no grant is released twice
C7_ReleasesWithinGrants ==
    \A r \in Res :
        /\ Len(relLog[r]) <= Len(grantLog[r])
        /\ RelIds(r) \subseteq Range(grantLog[r])
        /\ Distinct([i \in 1..Len(relLog[r]) |-> relLog[r][i].id])
        /\ Distinct(grantLog[r])

C7_Witness ==
    \E r \in Res : Len(relLog[r]) >= 2 /\ Len(grantLog[r]) > Len(relLog[r])

\* C8: the holders of a resource are exactly its granted requests not yet
\* released, each held by a customer inside the guarded block of that request;
\* a step releases a request only for the customer whose service ended; and
\* once no customer event is pending, no resource has a holder
C8_HeldIffUnreleased ==
    \A r \in Res :
        /\ Range(users[r]) = Range(grantLog[r]) \ RelIds(r)
        /\ \A id \in Range(users[r]) :
             cust[id[1]].pc \in {"acquire", "serve"} /\ cust[id[1]].stage = id[2]
        /\ Quiescent => (users[r] = <<>> /\ Len(grantLog[r]) = Len(relLog[r]))

C8_ReleasedByHolder ==
    \A r \in Res : NewReleases(r) >= 1 =>
        /\ NewReleases(r) = 1
        /\ Head(queue).kind = "subdone"
        /\ Last(relLog'[r]).id = <<Head(queue).who, cust[Head(queue).who].stage>>
        /\ Last(relLog'[r]).id \in Range(users[r])
        /\ Last(relLog'[r]).id \notin Range(users'[r])

C8_NoLeak == [](C8_HeldIffUnreleased) /\ [][C8_ReleasedByHolder]_vars

\* every spawned customer finished and every resource is free again
C8_Witness ==
    /\ spawned = MaxCustomers
    /\ \A c \in Customers : cust[c].pc = "done"
    /\ Quiescent
    /\ \E r \in Res : Len(grantLog[r]) >= 4
    /\ \A r \in Res : users[r] = <<>>

\* C9: a customer appends one record, now - arrival >= 0, when its body
\* completes, and none before: there is one record per finished customer
C9_RecordShape ==
    /\ Len(waiting_time_values) = Cardinality(DoneCustomers)
    /\ \A i \in 1..Len(waiting_time_values) : waiting_time_values[i] >= 0

C9_RecordOnCompletion ==
    LET finished == {c \in Customers : cust[c].pc # "done" /\ cust'[c].pc = "done"}
    IN /\ Cardinality(finished) <= 1
       /\ \A c \in finished :
            waiting_time_values' = Append(waiting_time_values, now' - cust[c].arrival)
       /\ finished = {} => waiting_time_values' = waiting_time_values
       /\ \A c \in Customers : cust[c].pc = "done" => cust'[c].pc = "done"

C9_WaitingRecords == [](C9_RecordShape) /\ [][C9_RecordOnCompletion]_vars

\* the run stopped with one customer finished and another still suspended
C9_Witness ==
    /\ stopped
    /\ \E i \in 1..Len(waiting_time_values) : waiting_time_values[i] >= 2
    /\ \E c \in Customers : cust[c].pc \in {"acquire", "serve"}
    /\ Len(waiting_time_values) < spawned

\* C10: after a run of horizon H the accumulated usage of a resource lies
\* between 0 and capacity * H
C10_UsageWithinHorizon ==
    stopped => \A r \in Res :
        0 <= Usage(data[r]) /\ Usage(data[r]) <= capacity[r] * Horizon

C10_Witness ==
    stopped /\ Usage(data["pump"]) >= 3 /\ Usage(data["cashier"]) >= 1

C11_HeapSorted ==
    \A i, j \in 1..Len(queue) :
        i < j => \/ queue[i].time < queue[j].time
                 \/ queue[i].time = queue[j].time /\ queue[i].prio <= queue[j].prio

C11_ScheduledBehindEqualKey ==
    \A i \in 1..Len(queue') :
        IsPrefix(AtKey(Tail(queue), queue'[i].time, queue'[i].prio),
                 AtKey(queue', queue'[i].time, queue'[i].prio))

C12_ScenarioAMeanTen ==
    ScenarioA =>
        /\ Granted_("pump", <<2, "fuel">>) => now >= 10
        /\ now > 10 => Granted_("pump", <<2, "fuel">>)
        /\ now > 20 => Holders("pump") = 0
        /\ stopped =>
             LET mean == get_mean_waiting_time(waiting_time_values)
             IN mean.raises = "none" /\ mean.num = 10 * mean.den

\* C12 amended: in scenario A the second customer gets the pump at time 10,
\* the pump is free after time 20, and the recorded waiting times are 10 and
\* 15 (the second customer leaves at 20), so their mean is 12.5
C12_ScenarioA ==
    ScenarioA =>
        /\ Granted_("pump", <<2, "fuel">>) => now >= 10
        /\ now > 10 => Granted_("pump", <<2, "fuel">>)
        /\ now > 20 => Holders("pump") = 0
        /\ stopped =>
             LET mean == get_mean_waiting_time(waiting_time_values)
             IN /\ waiting_time_values = <<10, 15>>
                /\ mean.raises = "none" /\ 2 * mean.num = 25 * mean.den

C12_Witness ==
    ScenarioA /\ stopped /\ Len(waiting_time_values) = 2 /\ Holders("pump") = 0

\* C13 as stated: in scenario B a request sample of time 0 has queue_length 3,
\* two requests are granted at once, the third at time 10, and the release
\* that frees its slot records queue_length 0
C13_ScenarioBQueueThree ==
    (ScenarioB /\ stopped) =>
        /\ \E i \in 1..Len(reqLog["pump"]) :
             /\ RequestSampleOf("pump", i).time = 0
             /\ RequestSampleOf("pump", i).queue_length = 3
        /\ reqLog["pump"][1].imm /\ reqLog["pump"][2].imm /\ ~reqLog["pump"][3].imm
        /\ ReleaseSampleOf("pump", 1).time = 10
        /\ ReleaseSampleOf("pump", 1).queue_length = 0

\* C13 amended: in scenario B the three request samples of time 0 have
\* queue_length 0, 1 and 2 (the requester itself is not counted), two requests
\* are granted at once, the third at time 10, and both releases of time 10
\* record queue_length 1 (the third request still waits); the one that frees
\* its slot records active_users 2, the next one active_users 1
C13_ScenarioB ==
    ScenarioB =>
        /\ \A i \in 1..3 :
             /\ reqLog["pump"][i].id = <<i, "fuel">>
             /\ RequestSampleOf("pump", i) =
                  [time |-> 0, queue_length |-> i - 1, active_users |-> i - 1]
        /\ reqLog["pump"][1].imm /\ reqLog["pump"][2].imm /\ ~reqLog["pump"][3].imm
        /\ Granted_("pump", <<3, "fuel">>) => now >= 10
        /\ now > 10 => Granted_("pump", <<3, "fuel">>)
        /\ \A k \in 1..Len(relLog["pump"]) : k <= 2 =>
             ReleaseSampleOf("pump", k) =
                  [time |-> 10, queue_length |-> 1, active_users |-> 3 - k]
        /\ stopped => Len(relLog["pump"]) = 3

C13_Witness ==
    /\ ScenarioB /\ stopped
    /\ Len(relLog["pump"]) = 3 /\ Len(waiting_time_values) = 3

\* C14: a customer none of whose requests had to wait records exactly the sum
\* of the durations of its service timeouts; when no finished customer had to
\* wait, the recorded waiting times sum to the service times
C14_RecordIsService ==
    \A c \in Customers :
        (cust[c].pc # "done" /\ cust'[c].pc = "done" /\ NeverWaited(c))
        => Last(waiting_time_values') = cust[c].service

C14_SumIsService ==
    (\A c \in DoneCustomers : NeverWaited(c)) => Sum(waiting_time_values) = ServiceOfDone

C14_NoWaiting == [](C14_SumIsService) /\ [][C14_RecordIsService]_vars

\* two customers finished without waiting, one of them after three services
C14_Witness ==
    /\ Cardinality(DoneCustomers) >= 2
    /\ \A c \in DoneCustomers : NeverWaited(c)
    /\ \E c \in DoneCustomers : cust[c].service >= 3
    /\ \E c \in Customers : ~NeverWaited(c)

\* C15: when the run ends with no finished customer, computing the mean
\* waiting time raises nothing: it yields a result of its own
C15_EmptyMeanDoesNotRaise ==
    (stopped /\ waiting_time_values = <<>>) =>
        get_mean_waiting_time(waiting_time_values).raises = "none"

\* C16: releasing a request that holds no slot leaves the resource as it was:
\* the same holders, the same wait queue, the same samples
C16_StrayReleaseChangesNothing ==
    [][\A r \in Res :
          (NewReleases(r) = 1 /\ Last(relLog'[r]).id \notin Range(users[r]))
          => (users'[r] = users[r] /\ waitq'[r] = waitq[r] /\ data'[r] = data[r])]_vars

\* C17 as stated: when run(until=L) has ended, every event of fire time <= L
\* was processed, the events at time L included (also for L = 0)
C17_EventsAtLimitProcessed ==
    stopped => \A i \in 1..Len(queue) : queue[i].time > now

\* C17 amended: run(until=L) processes exactly the pending events of fire time
\* < L: the until event is urgent and scheduled first, so it stops the run
\* ahead of every other event of time L; run(until=0) is refused and executes
\* nothing; processes still waiting when the run ends stay suspended
C17_EndedBeforeLimitEvents ==
    /\ ~stopped => \E t \in 1..Horizon : LimitIs(t) /\ now < t
    /\ stopped => \A i \in 1..Len(queue) : queue[i].time >= now
    /\ (stopped /\ now = 0) =>
          (spawned = 0 /\ queue = <<Ev(0, URGENT, "sysinit", 0, "none")>>)

C17_StepsBeforeLimit ==
    /\ ~stopped
    /\ Head(queue).kind # "until" => \E t \in 1..Horizon : LimitIs(t) /\ Head(queue).time < t
    /\ Head(queue).kind = "until" => (stopped' /\ cust' = cust /\ now' = Head(queue).time)

C17_LimitExclusive == [](C17_EndedBeforeLimitEvents) /\ [][C17_StepsBeforeLimit]_vars

\* the run ended at the limit with a service timeout of exactly that time
\* pending and its customer suspended
C17_Witness ==
    /\ stopped /\ now = Horizon
    /\ \E i \in 1..Len(queue) :
         /\ queue[i].kind = "timeout" /\ queue[i].time = now
         /\ cust[queue[i].who].pc = "serve"

\* C18: a resource with waiting requests and free slots has, for each slot a
\* waiter could take, a Release event still pending at the current instant;
\* so when the clock advances or the run ends no resource has both waiters and
\* a free slot, and processing a Release event with a waiter and a free slot
\* grants the head of the queue at that same virtual time
C18_ReleasePendingForFreeSlot ==
    \A r \in Res : Cardinality(PendingReleases(r)) >= Grantable(r)

C18_NothingIdleAtEnd ==
    stopped => \A r \in Res : Grantable(r) <= 0

C18_GrantAtSameInstant ==
    /\ now' > now => \A r \in Res : Grantable(r) <= 0
    /\ (~stopped /\ queue # <<>> /\ Head(queue).kind = "rel") =>
          LET r == Head(queue).res IN
            /\ now' = now
            /\ Grantable(r) > 0 =>
                 /\ waitq'[r] = Tail(waitq[r])
                 /\ users'[r] = Append(users[r], Head(waitq[r]))
                 /\ \E i \in 1..Len(queue') :
                      /\ queue'[i].kind = "req" /\ queue'[i].time = now
                      /\ queue'[i].who = Head(waitq[r])[1]

C18_WorkConserving ==
    [](C18_ReleasePendingForFreeSlot /\ C18_NothingIdleAtEnd)
       /\ [][C18_GrantAtSameInstant]_vars

\* a request that had to wait holds a slot, granted at the time of the last
\* release, with its Request event still to be delivered at that instant
C18_Witness ==
    \E r \in Res : \E i \in 1..Len(reqLog[r]) :
        /\ ~reqLog[r][i].imm
        /\ reqLog[r][i].id \in Range(users[r])
        /\ relLog[r] # <<>>
        /\ data[r][Last(relLog[r]).at].time = now
        /\ \E k \in 1..Len(queue) :
             /\ queue[k].kind = "req" /\ queue[k].time = now
             /\ queue[k].who = reqLog[r][i].id[1] /\ queue[k].res = r

\* C19: a customer has at most one request that holds a slot or waits for
\* one; when it issues a request, whatever it held was released earlier in
\* the same step (the release sample precedes the request sample) and it
\* holds nothing afterwards but what that request got; every holder has an
\* event pending that leads to its release, a queue with waiters has a holder
\* or a pending Release event, and nobody waits once the customers' events
\* are exhausted
C19_OneClaim ==
    \A c \in Customers : Cardinality(Claims(c)) <= 1

C19_NoDeadlock ==
    \A r \in Res :
        /\ \A id \in Range(users[r]) : Resumes(id[1])
        /\ waitq[r] # <<>> => (users[r] # <<>> \/ PendingReleases(r) # {})
        /\ Quiescent => waitq[r] = <<>>

C19_ReleaseBeforeRequest ==
    \A r \in Res : NewRequests(r) >= 1 =>
        LET id == Last(reqLog'[r]).id IN
          /\ NewRequests(r) = 1
          /\ \A x \in Claims(id[1]) :
               /\ x[2] \in Range(users[x[1]])
               /\ NewReleases(x[1]) = 1
               /\ Last(relLog'[x[1]]).id = x[2]
               /\ x[2] \notin Range(users'[x[1]])
               /\ x[1] = r => Last(relLog'[r]).at < Last(reqLog'[r]).at
          /\ \A x \in Res \X (Customers \X {"refill", "fuel", "food"}) :
               (/\ x[2][1] = id[1]
                /\ x[2] \in Range(users'[x[1]]) \cup Range(waitq'[x[1]]))
                  => x = <<r, id>>

C19_OneGrantNoDeadlock ==
    [](C19_OneClaim /\ C19_NoDeadlock) /\ [][C19_ReleaseBeforeRequest]_vars

\* a customer that gave its pump slot back waits for the cashier and holds
\* nothing
C19_Witness ==
    \E c \in Customers :
        /\ <<c, "food">> \in Range(waitq["cashier"])
        /\ <<c, "fuel">> \in RelIds("pump")
        /\ Claims(c) = {<<"cashier", <<c, "food">>>>}

\* C20: the refill test and the slow test read the same dice value: a started
\* customer has issued one pump request (fueling) or two (refill, then
\* fueling), two only with a dice within both chances; the fueling service of
\* a customer that refilled lasts twice a drawn duration; and its fueling
\* request goes to the end of the pump's queue, behind every request that was
\* waiting, of which the head takes the slot the customer gave back
C20_OneOrTwoPumpRequests ==
    \A c \in Customers :
        LET p == PumpRequests(c) IN
          IF cust[c].pc \in {"unborn", "start"} THEN p = <<>>
          ELSE /\ Len(p) \in {1, 2}
               /\ IsRefill(cust[c].dice) => (p[1] = <<c, "refill">> /\ IsSlow(cust[c].dice))
               /\ ~IsRefill(cust[c].dice) => p = << <<c, "fuel">> >>
               /\ Len(p) = 2 => (p[2] = <<c, "fuel">> /\ IsRefill(cust[c].dice))
               /\ (IsRefill(cust[c].dice) /\ Len(p) = 1) => cust[c].stage = "refill"

C20_RefillThenSlow ==
    (~stopped /\ queue # <<>> /\ Head(queue).kind = "subinit") =>
        LET c == Head(queue).who IN
          (cust[c].stage = "fuel" /\ Len(PumpRequests(c)) = 2) =>
              \E d \in Delays :
                 /\ cust'[c].service = cust[c].service + 2 * d
                 /\ \E k \in 1..Len(queue') :
                      /\ queue'[k].kind = "timeout" /\ queue'[k].who = c
                      /\ queue'[k].time = now' + 2 * d

C20_SecondBehindWaiters ==
    (~stopped /\ queue # <<>> /\ Head(queue).kind = "subdone") =>
        LET c == Head(queue).who IN
          cust[c].stage = "refill" =>
              /\ Last(reqLog'["pump"]).id = <<c, "fuel">>
              /\ IF waitq["pump"] = <<>>
                 THEN Last(reqLog'["pump"]).imm /\ waitq'["pump"] = <<>>
                 ELSE /\ ~Last(reqLog'["pump"]).imm
                      /\ waitq'["pump"] = Append(Tail(waitq["pump"]), <<c, "fuel">>)
                      /\ Head(waitq["pump"]) \in Range(users'["pump"])

C20_SameDice ==
    [](C20_OneOrTwoPumpRequests)
       /\ [][C20_RefillThenSlow /\ C20_SecondBehindWaiters]_vars

\* a customer that refilled waits for its fueling while a request that was
\* waiting when it came back holds the pump
C20_Witness ==
    \E c \in Customers :
        /\ PumpRequests(c) = << <<c, "refill">>, <<c, "fuel">> >>
        /\ <<c, "fuel">> \in Range(waitq["pump"])
        /\ \E o \in Customers \ {c} : \E i \in 1..Len(reqLog["pump"]) :
             /\ reqLog["pump"][i].id[1] = o
             /\ ~reqLog["pump"][i].imm
             /\ reqLog["pump"][i].id \in Range(users["pump"])
             /\ Pos(grantLog["pump"], reqLog["pump"][i].id)
                   > Pos(grantLog["pump"], <<c, "refill">>)

====
